---- MODULE Spec2Model ----
(***************************************************************************)
(* Model of class ann (ann.hpp): a network of two dense layers, its        *)
(* training data, the training order and the public operations init,       *)
(* clear, set_training_data, train, predict and print.                     *)
(*                                                                         *)
(* dense_layer.hpp is not among the sources; the layer is modelled from    *)
(* the specification (section 4.1).  Real numbers are rendered in fixed    *)
(* point with unit One, and the logistic sigmoid by its piecewise linear   *)
(* approximation clamped to [0, 1].                                        *)
(***************************************************************************)
EXTENDS Integers, Sequences, FiniteSets, TLC

(* ------------------------------ bounds -------------------------------- *)

\* Largest number of nodes / inputs / outputs passed to init.
MaxNodes == 2
\* Largest number of vectors in a sequence passed to set_training_data/print.
MaxSets == 2
\* Largest num_epochs passed to train.
MaxEpochs == 2
\* Largest value std::rand() returns in the model (0..RandMax).
RandMax == 2

(* ------------------------- fixed-point numbers ------------------------ *)

\* The fixed-point unit: the real number 1.0.
One == 8

Mul(a, b) == (a * b) \div One

RECURSIVE SumTo(_, _)
SumTo(f, n) == IF n = 0 THEN 0 ELSE f[n] + SumTo(f, n - 1)

Clamp(x) == IF x < 0 THEN 0 ELSE IF x > One THEN One ELSE x

\* sigma(x) = 1 / (1 + e^-x), piecewise linear: 1/2 + x/4 within [0, 1].
Activation(x) == Clamp((One \div 2) + (x \div 4))

\* activation_derivative(o) = o * (1 - o).
Derivative(o) == Mul(o, One - o)

Zeros(n) == [k \in 1..n |-> 0]

(* ------------------------------ dense_layer --------------------------- *)

\* A layer: per node a weight vector, a bias, the last output and the last
\* delta.  The empty layer has no nodes.
EmptyLayer == [output |-> <<>>, delta |-> <<>>, bias |-> <<>>, weights |-> <<>>]

num_nodes(l) == Len(l.output)

num_weights(l) == IF Len(l.weights) = 0 THEN 0 ELSE Len(l.weights[1])

\* The k-th value of the pseudo-random stream that initialises a layer.
InitValue(seed, i, j) == ((seed + 3 * i + 5 * j) % 5) - 2

LayerResize(nodes, width, seed) ==
  [output  |-> Zeros(nodes),
   delta   |-> Zeros(nodes),
   bias    |-> [i \in 1..nodes |-> InitValue(seed, i, 0)],
   weights |-> [i \in 1..nodes |-> [j \in 1..width |-> InitValue(seed, i, j)]]]

LayerClear(l) == EmptyLayer

LayerFeedforward(l, input) ==
  [l EXCEPT !.output =
     [i \in 1..num_nodes(l) |->
        Activation(l.bias[i]
                   + SumTo([j \in 1..num_weights(l) |-> Mul(l.weights[i][j], input[j])],
                           num_weights(l)))]]

\* backpropagate, terminal form: against reference values.
LayerBackpropagateReference(l, reference) ==
  [l EXCEPT !.delta =
     [i \in 1..num_nodes(l) |->
        Mul(reference[i] - l.output[i], Derivative(l.output[i]))]]

\* backpropagate, interior form: from the layer downstream.
LayerBackpropagateNext(l, next) ==
  [l EXCEPT !.delta =
     [i \in 1..num_nodes(l) |->
        Mul(SumTo([k \in 1..num_nodes(next) |-> Mul(next.delta[k], next.weights[k][i])],
                  num_nodes(next)),
            Derivative(l.output[i]))]]

LayerOptimize(l, input, learning_rate) ==
  [l EXCEPT
     !.bias    = [i \in 1..num_nodes(l) |-> l.bias[i] + Mul(learning_rate, l.delta[i])],
     !.weights = [i \in 1..num_nodes(l) |->
                    [j \in 1..num_weights(l) |->
                       l.weights[i][j] + Mul(Mul(learning_rate, l.delta[i]), input[j])]]]

\* dense_layer::print(vector, ostream, num_decimals): what it writes.
LayerPrint(vector, num_decimals) == [text |-> "vector", data |-> vector, decimals |-> num_decimals]

(* --------------------------------- ann -------------------------------- *)

VARIABLES
  hidden_layer_,   \* the hidden layer
  output_layer_,   \* the output layer
  train_in_,       \* training inputs
  train_out_,      \* training reference values
  train_order_,    \* order of the training sets (indices from 0)
  pc,              \* "idle", or the position inside train: "shuffle", "sample"
  train_args,      \* train's num_epochs and learning_rate while it runs
  train_i,         \* train's epoch counter i
  train_pos,       \* position of the range-for over train_order_ (from 1)
  trained,         \* epochs started since the layers were last resized
  obs              \* what the latest call did: layer calls, text written, counts

vars == <<hidden_layer_, output_layer_, train_in_, train_out_, train_order_,
          pc, train_args, train_i, train_pos, trained, obs>>

layers == <<hidden_layer_, output_layer_>>
data   == <<train_in_, train_out_, train_order_>>
locals == <<pc, train_args, train_i, train_pos>>

NoArgs == [num_epochs |-> 0, learning_rate |-> 0]

\* Nothing observed yet: the record every call starts from.
Obs0 == [op |-> "none", args |-> <<>>, log |-> <<>>, sink |-> <<>>,
         seen |-> <<>>, epochs |-> 0, cycles |-> 0, divzero |-> FALSE,
         from |-> <<>>]

\* The two layers and the layer calls made on them, threaded through the
\* private operations.
Net(h, o, log) == [hidden |-> h, output |-> o, log |-> log]

Call(layer, op, arg) == [layer |-> layer, op |-> op, arg |-> arg]

feedforward(s, input) ==
  LET h == LayerFeedforward(s.hidden, input)
      o == LayerFeedforward(s.output, h.output)
  IN  Net(h, o, s.log \o <<Call("hidden", "feedforward", input),
                          Call("output", "feedforward", h.output)>>)

\* Faulty variant: the hidden layer's deltas are computed before the output
\* layer's.
backpropagate_hidden_first(s, reference) ==
  LET h == LayerBackpropagateNext(s.hidden, s.output)
      o == LayerBackpropagateReference(s.output, reference)
  IN  Net(h, o, s.log \o <<Call("hidden", "backpropagate", s.output),
                          Call("output", "backpropagate", reference)>>)

backpropagate(s, reference) ==
  LET o == LayerBackpropagateReference(s.output, reference)
      h == LayerBackpropagateNext(s.hidden, o)
  IN  Net(h, o, s.log \o <<Call("output", "backpropagate", reference),
                          Call("hidden", "backpropagate", o)>>)

optimize(s, input, learning_rate) ==
  LET o == LayerOptimize(s.output, s.hidden.output, learning_rate)
      h == LayerOptimize(s.hidden, input, learning_rate)
  IN  Net(h, o, s.log \o <<Call("output", "optimize", s.hidden.output),
                          Call("hidden", "optimize", input)>>)

\* Faulty variant: the trailing elements are kept.
Truncate_tail(v, n) == SubSeq(v, Len(v) - n + 1, Len(v))

\* std::vector::resize to a smaller size keeps the leading elements.
Truncate(v, n) == SubSeq(v, 1, n)

\* Faulty variant: only a longer input sequence is cut.
check_training_data_size_inputs_only(tin, tout) ==
  IF Len(tin) > Len(tout)
  THEN [in |-> SubSeq(tin, 1, Len(tout)), out |-> tout]
  ELSE [in |-> tin, out |-> tout]

check_training_data_size(tin, tout) ==
  IF Len(tin) # Len(tout)
  THEN IF Len(tin) > Len(tout)
       THEN [in |-> Truncate(tin, Len(tout)), out |-> tout]
       ELSE [in |-> tin, out |-> Truncate(tout, Len(tin))]
  ELSE [in |-> tin, out |-> tout]

init_training_order(tin) == [k \in 1..Len(tin) |-> k - 1]

\* Faulty variant: the swap without the temporary.
Swap_no_temp(order, a, b) == [order EXCEPT ![a] = order[b], ![b] = order[b]]

Swap(order, a, b) == [order EXCEPT ![a] = order[b], ![b] = order[a]]

\* The loop of randomize_training_order from index k (from 1) on; draws[k]
\* is the value std::rand() returns in iteration k.  A remainder by zero is
\* undefined and recorded in divzero.
RECURSIVE RandomizeFrom(_, _, _, _)
RandomizeFrom(order, k, draws, divzero) ==
  IF k > Len(order)
  THEN [order |-> order, divzero |-> divzero]
  ELSE IF Len(order) = 0
       THEN [order |-> order, divzero |-> TRUE]
       ELSE RandomizeFrom(Swap(order, k, (draws[k] % Len(order)) + 1),
                          k + 1, draws, divzero)

randomize_training_order(order, draws) == RandomizeFrom(order, 1, draws, FALSE)

Draws(order) == [1..Len(order) -> 0..RandMax]

num_inputs == num_weights(hidden_layer_)
num_hidden_nodes == num_nodes(hidden_layer_)
num_outputs == num_nodes(output_layer_)
num_training_sets == Len(train_order_)

(* ------------------------------- inputs ------------------------------- *)

Bit(k, j) == (k \div (2 ^ (j - 1))) % 2

\* Input vector number k (from 0) of width w: the binary digits of k.
InVec(k, w) == [j \in 1..w |-> Bit(k, j) * One]

\* Reference vector number k of width w.
RefVec(k, w) == [j \in 1..w |-> ((Bit(k, 1) + Bit(k, 2) + j - 1) % 2) * One]

\* Width of the input and of the reference vectors callers pass: the
\* two-input, one-output pattern of the example program.
InWidth == 2
OutWidth == 1

InSeq(m) == [k \in 1..m |-> InVec(k - 1, InWidth)]
RefSeq(n) == [k \in 1..n |-> RefVec(k - 1, OutWidth)]

Widths == 1..MaxNodes
LearningRates == {One}
Seeds == {0, 1}

\* The caller's contract: every vector has the width of the layer it meets.
InputFits(input) == num_hidden_nodes > 0 /\ num_outputs > 0 /\ Len(input) = num_inputs
InputsFit(inputs) == \A k \in 1..Len(inputs) : InputFits(inputs[k])
TrainingDataFits ==
  /\ InputsFit(train_in_)
  /\ \A k \in 1..Len(train_out_) : Len(train_out_[k]) = num_outputs

(* ------------------------------ operations ---------------------------- *)

\* ann(void): every member default-constructed.
DefaultConstructed ==
  /\ hidden_layer_ = EmptyLayer
  /\ output_layer_ = EmptyLayer
  /\ train_in_ = <<>>
  /\ train_out_ = <<>>
  /\ train_order_ = <<>>

\* ann(num_inputs, num_hidden_nodes, num_outputs): the layers it builds, by
\* init on the default-constructed members.
ann(ni, nh, no, seed) ==
  [hidden |-> LayerResize(nh, ni, seed), output |-> LayerResize(no, nh, seed + 1)]

Init ==
  /\ DefaultConstructed
  /\ pc = "idle"
  /\ train_args = NoArgs
  /\ train_i = 0
  /\ train_pos = 0
  /\ trained = 0
  /\ obs = Obs0

\* Faulty variant: the output layer is given the width of the input.
init_output_width_of_input(ni, nh, no, seed) ==
  /\ pc = "idle"
  /\ hidden_layer_' = LayerResize(nh, ni, seed)
  /\ output_layer_' = LayerResize(no, ni, seed + 1)
  /\ trained' = 0
  /\ obs' = [Obs0 EXCEPT !.op = "init", !.args = <<ni, nh, no>>]
  /\ UNCHANGED <<data, locals>>

init(ni, nh, no, seed) ==
  /\ pc = "idle"
  /\ hidden_layer_' = LayerResize(nh, ni, seed)
  /\ output_layer_' = LayerResize(no, nh, seed + 1)
  /\ trained' = 0
  /\ obs' = [Obs0 EXCEPT !.op = "init", !.args = <<ni, nh, no>>]
  /\ UNCHANGED <<data, locals>>

\* Faulty variant: the training data is not cleared.
clear_keeps_training_data ==
  /\ pc = "idle"
  /\ hidden_layer_' = LayerClear(hidden_layer_)
  /\ output_layer_' = LayerClear(output_layer_)
  /\ trained' = 0
  /\ obs' = [Obs0 EXCEPT !.op = "clear",
                         !.args = <<num_training_sets, num_hidden_nodes>>]
  /\ UNCHANGED <<data, locals>>

clear ==
  /\ pc = "idle"
  /\ hidden_layer_' = LayerClear(hidden_layer_)
  /\ output_layer_' = LayerClear(output_layer_)
  /\ train_in_' = <<>>
  /\ train_out_' = <<>>
  /\ train_order_' = <<>>
  /\ trained' = 0
  /\ obs' = [Obs0 EXCEPT !.op = "clear",
                         !.args = <<num_training_sets, num_hidden_nodes>>]
  /\ UNCHANGED locals

set_training_data(train_in, train_out) ==
  /\ pc = "idle"
  /\ LET d == check_training_data_size(train_in, train_out)
     IN  /\ train_in_' = d.in
         /\ train_out_' = d.out
         /\ train_order_' = init_training_order(d.in)
  /\ obs' = [Obs0 EXCEPT !.op = "set_training_data", !.args = <<train_in, train_out>>]
  /\ UNCHANGED <<layers, locals, trained>>

\* const std::vector<double>& output(): the output layer's output.
output == output_layer_.output

\* Faulty variant: the outer loop tests i <= num_epochs.
AfterSample_extra_epoch(p) ==
  IF p < Len(train_order_)
  THEN /\ pc' = "sample"
       /\ train_pos' = p + 1
       /\ UNCHANGED <<train_args, train_i>>
  ELSE IF train_i + 1 <= train_args.num_epochs
       THEN /\ pc' = "shuffle"
            /\ train_i' = train_i + 1
            /\ train_pos' = 0
            /\ UNCHANGED train_args
       ELSE /\ pc' = "idle"
            /\ train_args' = NoArgs
            /\ train_i' = 0
            /\ train_pos' = 0

\* Leaving the body of train's inner loop at position p of the range-for:
\* on to the next training set, the next epoch, or out of train.
AfterSample(p) ==
  IF p < Len(train_order_)
  THEN /\ pc' = "sample"
       /\ train_pos' = p + 1
       /\ UNCHANGED <<train_args, train_i>>
  ELSE IF train_i + 1 < train_args.num_epochs
       THEN /\ pc' = "shuffle"
            /\ train_i' = train_i + 1
            /\ train_pos' = 0
            /\ UNCHANGED train_args
       ELSE /\ pc' = "idle"
            /\ train_args' = NoArgs
            /\ train_i' = 0
            /\ train_pos' = 0

\* train is entered: the outer loop's first test.  A call that reaches the
\* layers meets the caller's contract on vector widths; at most MaxEpochs
\* epochs run between two resizes of the layers, which bounds the weights.
train(num_epochs, learning_rate) ==
  /\ pc = "idle"
  /\ num_epochs = 0 \/ Len(train_order_) = 0 \/ TrainingDataFits
  /\ trained + num_epochs <= MaxEpochs
  /\ obs' = [Obs0 EXCEPT !.op = "train", !.args = <<num_epochs, learning_rate>>]
  /\ IF 0 < num_epochs
     THEN /\ pc' = "shuffle"
          /\ train_args' = [num_epochs |-> num_epochs, learning_rate |-> learning_rate]
          /\ train_i' = 0
          /\ train_pos' = 0
     ELSE UNCHANGED locals
  /\ UNCHANGED <<layers, data, trained>>

\* Faulty variant: the order is set to the identity before every shuffle.
epoch_order_regenerated(order, draws) ==
  [from |-> init_training_order(order)]
    @@ randomize_training_order(init_training_order(order), draws)

\* What an epoch of train does to the order before its samples: the order the
\* shuffle starts from, and the result of randomize_training_order.
epoch_order(order, draws) ==
  [from |-> order] @@ randomize_training_order(order, draws)

\* An epoch begins: this->randomize_training_order().
train_shuffle ==
  /\ pc = "shuffle"
  /\ \E draws \in Draws(train_order_) :
       LET r == epoch_order(train_order_, draws)
       IN  /\ train_order_' = r.order
           /\ obs' = [obs EXCEPT !.from = r.from, !.divzero = @ \/ r.divzero,
                                 !.epochs = @ + 1, !.seen = <<>>, !.log = <<>>]
  /\ trained' = trained + 1
  /\ AfterSample(0)
  /\ UNCHANGED <<layers, train_in_, train_out_>>

\* The body of the inner loop for one training set.
train_cycle(s, input, reference, learning_rate) ==
  optimize(backpropagate(feedforward(s, input), reference), input, learning_rate)

train_sample ==
  /\ pc = "sample"
  /\ LET j == train_order_[train_pos]
         s == train_cycle(Net(hidden_layer_, output_layer_, <<>>),
                          train_in_[j + 1], train_out_[j + 1],
                          train_args.learning_rate)
     IN  /\ hidden_layer_' = s.hidden
         /\ output_layer_' = s.output
         /\ obs' = [obs EXCEPT !.log = s.log, !.seen = Append(@, j), !.cycles = @ + 1]
  /\ AfterSample(train_pos)
  /\ UNCHANGED <<data, trained>>

\* Faulty variant: predict also updates the parameters.
predict_net_learning(s, input) == optimize(feedforward(s, input), input, One)

\* predict: the network after the call; the value returned is output().
predict_net(s, input) == feedforward(s, input)

predict(input) ==
  /\ pc = "idle"
  /\ InputFits(input)
  /\ LET s == predict_net(Net(hidden_layer_, output_layer_, <<>>), input)
     IN  /\ hidden_layer_' = s.hidden
         /\ output_layer_' = s.output
         /\ obs' = [Obs0 EXCEPT !.op = "predict", !.args = <<input>>, !.log = s.log]
  /\ UNCHANGED <<data, locals, trained>>

Rule == "--------------------------------------------------------------------------------\n"

\* The loop of print from element k on; p carries the network and the text.
RECURSIVE PrintFrom(_, _, _, _)
PrintFrom(p, input, k, num_decimals) ==
  IF k > Len(input)
  THEN p
  ELSE LET s == predict_net(p.net, input[k])
           t == p.sink \o <<"Input:\t", LayerPrint(input[k], num_decimals),
                            "Output:\t", LayerPrint(s.output.output, num_decimals)>>
                       \o (IF k < Len(input) THEN <<"\n">> ELSE <<>>)
       IN  PrintFrom([net |-> s, sink |-> t], input, k + 1, num_decimals)

\* Faulty variant: no early return on an empty input.
print_to_unguarded(s, input, num_decimals) ==
  LET p == PrintFrom([net |-> s, sink |-> <<Rule>>], input, 1, num_decimals)
  IN  [p EXCEPT !.sink = @ \o <<Rule, "\n">>]

\* print(input, num_decimals, ostream): the network after it and what it wrote.
print_to(s, input, num_decimals) ==
  IF Len(input) = 0
  THEN [net |-> s, sink |-> <<>>]
  ELSE LET p == PrintFrom([net |-> s, sink |-> <<Rule>>], input, 1, num_decimals)
       IN  [p EXCEPT !.sink = @ \o <<Rule, "\n">>]

print_input(input, num_decimals) ==
  /\ pc = "idle"
  /\ InputsFit(input)
  /\ LET p == print_to(Net(hidden_layer_, output_layer_, <<>>), input, num_decimals)
     IN  /\ hidden_layer_' = p.net.hidden
         /\ output_layer_' = p.net.output
         /\ obs' = [Obs0 EXCEPT !.op = "print", !.args = <<input>>,
                                !.log = p.net.log, !.sink = p.sink]
  /\ UNCHANGED <<data, locals, trained>>

\* print(num_decimals, ostream): print of the stored training inputs.
print_training(num_decimals) ==
  /\ pc = "idle"
  /\ InputsFit(train_in_)
  /\ LET p == print_to(Net(hidden_layer_, output_layer_, <<>>), train_in_, num_decimals)
     IN  /\ hidden_layer_' = p.net.hidden
         /\ output_layer_' = p.net.output
         /\ obs' = [Obs0 EXCEPT !.op = "print", !.args = <<>>,
                                !.log = p.net.log, !.sink = p.sink]
  /\ UNCHANGED <<data, locals, trained>>

Decimals == {1}

Next ==
  \/ \E ni \in Widths, nh \in Widths, no \in Widths, seed \in Seeds : init(ni, nh, no, seed)
  \/ clear
  \/ \E m \in 0..MaxSets, n \in 0..MaxSets : set_training_data(InSeq(m), RefSeq(n))
  \/ \E ne \in 0..MaxEpochs, lr \in LearningRates : train(ne, lr)
  \/ train_shuffle
  \/ train_sample
  \/ \E k \in 0..MaxSets : predict(InVec(k, InWidth))
  \/ \E m \in 0..MaxSets, nd \in Decimals : print_input(InSeq(m), nd)
  \/ \E nd \in Decimals : print_training(nd)

Spec == Init /\ [][Next]_vars

(* ------------------------------- claims ------------------------------- *)

Min(a, b) == IF a < b THEN a ELSE b

Identity(n) == [k \in 1..n |-> k - 1]

IsPermutation(order) ==
  {order[k] : k \in 1..Len(order)} = 0..(Len(order) - 1)

Shape(l) == <<num_nodes(l), num_weights(l)>>

\* C1: after set_training_data(inputs, targets) with m inputs and n targets,
\* num_training_sets() is min(m, n) and the stored inputs and targets are the
\* first min(m, n) elements of the sequences passed.
C1_TruncationLaw ==
  obs.op = "set_training_data" =>
    LET k == Min(Len(obs.args[1]), Len(obs.args[2]))
    IN  /\ num_training_sets = k
        /\ train_in_ = SubSeq(obs.args[1], 1, k)
        /\ train_out_ = SubSeq(obs.args[2], 1, k)

C1_Witness ==
  /\ obs.op = "set_training_data"
  /\ Len(obs.args[1]) > Len(obs.args[2])
  /\ Len(obs.args[2]) > 0
  /\ train_in_ # obs.args[1]

\* C2: after set_training_data and after every epoch's shuffle in train, the
\* training order holds every index of [0, num_training_sets()) exactly once.
C2_ShuffleIsPermutation == IsPermutation(train_order_)

C2_Witness ==
  /\ obs.op = "train"
  /\ obs.epochs >= 2
  /\ Len(train_order_) >= 2
  /\ train_order_ # Identity(Len(train_order_))

\* The layer and operation of every entry of a log of layer calls.
Steps(log) == [k \in 1..Len(log) |-> <<log[k].layer, log[k].op>>]

\* C3: in train every sample cycle makes exactly these six layer calls, in
\* this order: feedforward on hidden with the sample's input, feedforward on
\* output with hidden's output, backpropagate on output with the sample's
\* reference (same index), backpropagate on hidden from the output layer,
\* optimize on output with hidden's output, optimize on hidden with the
\* sample's input.
C3_SampleCycleOrder ==
  (obs.op = "train" /\ obs.seen # <<>>) =>
    LET j == obs.seen[Len(obs.seen)]
        log == obs.log
    IN  /\ Steps(log) = << <<"hidden", "feedforward">>, <<"output", "feedforward">>,
                           <<"output", "backpropagate">>, <<"hidden", "backpropagate">>,
                           <<"output", "optimize">>, <<"hidden", "optimize">> >>
        /\ log[1].arg = train_in_[j + 1]
        /\ log[2].arg = hidden_layer_.output
        /\ log[3].arg = train_out_[j + 1]
        /\ log[4].arg.delta = output_layer_.delta
        /\ log[4].arg.output = output_layer_.output
        /\ log[5].arg = hidden_layer_.output
        /\ log[6].arg = train_in_[j + 1]

C3_Witness ==
  /\ obs.op = "train"
  /\ Len(obs.seen) >= 2
  /\ obs.epochs >= 2
  /\ Len(obs.log) > 0
  /\ obs.seen[Len(obs.seen)] # 0

\* C4 as claimed: every epoch's shuffle starts from the identity permutation.
C4_OrderRegeneratedEachEpoch ==
  (obs.op = "train" /\ obs.epochs > 0) => obs.from = Identity(num_training_sets)

\* C4, amended: train does not regenerate the order.  Every epoch's shuffle
\* starts from the order as the latest shuffle or set_training_data left it,
\* and no other step of train changes the order.
C4_ShuffleStartsFromCurrentOrder ==
  [][(pc # "idle" \/ pc' # "idle") =>
       IF obs'.epochs = obs.epochs + 1
       THEN obs'.from = train_order_
       ELSE train_order_' = train_order_]_vars

C4_Witness ==
  /\ obs.op = "train"
  /\ obs.epochs >= 2
  /\ obs.from # Identity(num_training_sets)

\* C5: in every reachable state the number of stored training inputs, the
\* number of stored reference vectors and the length of the training order
\* (num_training_sets()) are equal.
C5_TrainingSetSizesAgree ==
  /\ Len(train_in_) = Len(train_out_)
  /\ Len(train_in_) = num_training_sets

C5_Witness ==
  /\ obs.op = "train"
  /\ pc = "idle"
  /\ obs.cycles > 0
  /\ Len(train_in_) >= 2
  /\ Len(train_out_) >= 2

\* C6: clear() leaves the state of a default-constructed network, and an
\* init(a, b, c) that follows gives the layers the shapes of ann(a, b, c).
C6_ClearGivesDefault ==
  /\ [](obs.op = "clear" => DefaultConstructed)
  /\ [][(obs.op = "clear" /\ obs'.op = "init") =>
          \A seed \in Seeds :
            LET fresh == ann(obs'.args[1], obs'.args[2], obs'.args[3], seed)
            IN  /\ Shape(hidden_layer_') = Shape(fresh.hidden)
                /\ Shape(output_layer_') = Shape(fresh.output)]_vars

C6_Witness ==
  /\ obs.op = "clear"
  /\ obs.args[1] > 0
  /\ obs.args[2] > 0
  /\ DefaultConstructed

\* C7: after init(num_inputs, h, num_outputs), from any state, the hidden
\* layer has h nodes of num_inputs weights each and the output layer has
\* num_outputs nodes of h weights each.
C7_ShapeAfterInit ==
  obs.op = "init" =>
    LET ni == obs.args[1]
        nh == obs.args[2]
        no == obs.args[3]
    IN  /\ num_inputs = ni
        /\ num_hidden_nodes = nh
        /\ num_outputs = no
        /\ num_weights(output_layer_) = num_hidden_nodes
        /\ \A k \in 1..nh : Len(hidden_layer_.weights[k]) = ni
        /\ \A k \in 1..no : Len(output_layer_.weights[k]) = nh
        /\ Len(hidden_layer_.bias) = nh
        /\ Len(output_layer_.bias) = no

C7_Witness ==
  /\ obs.op = "init"
  /\ obs.args = <<1, 2, 1>>
  /\ num_training_sets > 0
  /\ trained = 0

\* The calls of print that are given no input: print(input, ...) with an
\* empty input, and print(...) when no training input is stored.
PrintOfNothing ==
  /\ obs'.op = "print"
  /\ obs'.args = << <<>> >> \/ (obs'.args = <<>> /\ train_in_ = <<>>)

\* C8: print with an empty sequence of inputs, or without inputs when no
\* training input is stored, writes nothing and predicts nothing.
C8_PrintOfNothingIsNoOp ==
  [][PrintOfNothing =>
       /\ obs'.sink = <<>>
       /\ obs'.log = <<>>
       /\ UNCHANGED <<layers, data>>]_vars

C8_Witness ==
  /\ obs.op = "print"
  /\ obs.args = << <<>> >>
  /\ obs.sink = <<>>
  /\ num_hidden_nodes > 0
  /\ train_in_ # <<>>

\* Steps train still has to take: the variant of its two loops.
TrainVariant ==
  IF pc = "idle"
  THEN 0
  ELSE (train_args.num_epochs - train_i) * (num_training_sets + 1)
         - (IF pc = "sample" THEN train_pos ELSE 0)

\* C9: train(num_epochs, learning_rate) on n training sets ends after exactly
\* num_epochs epochs, each of which runs the cycle once for every index of
\* [0, n), num_epochs * n cycles in all; it takes no remainder by zero.
C9_TrainRunsEveryEpoch ==
  /\ [](/\ ~obs.divzero
        /\ (obs.op = "train" /\ pc = "idle") =>
             /\ obs.epochs = obs.args[1]
             /\ obs.cycles = obs.args[1] * num_training_sets
        /\ (obs.op = "train" /\ pc # "sample" /\ obs.epochs > 0) =>
             /\ Len(obs.seen) = num_training_sets
             /\ IsPermutation(obs.seen)
        /\ pc # "idle" => TrainVariant > 0)
  /\ [][pc # "idle" => TrainVariant' < TrainVariant]_vars

C9_Witness ==
  /\ obs.op = "train"
  /\ pc = "idle"
  /\ obs.args[1] = 2
  /\ num_training_sets = 2
  /\ obs.cycles = 4

\* The weights, biases and deltas of a layer.
Parameters(l) == <<l.weights, l.bias, l.delta>>

\* C10: predict(input) makes one forward pass, hidden then output, and
\* changes nothing but the outputs of the two layers.
C10_PredictChangesOutputsOnly ==
  [][obs'.op = "predict" =>
       /\ Parameters(hidden_layer_') = Parameters(hidden_layer_)
       /\ Parameters(output_layer_') = Parameters(output_layer_)
       /\ UNCHANGED data
       /\ Steps(obs'.log) = << <<"hidden", "feedforward">>, <<"output", "feedforward">> >>
       /\ obs'.log[1].arg = obs'.args[1]
       /\ obs'.log[2].arg = hidden_layer_'.output
       /\ hidden_layer_'.output = LayerFeedforward(hidden_layer_, obs'.args[1]).output
       /\ output_layer_'.output
            = LayerFeedforward(output_layer_, hidden_layer_'.output).output]_vars

C10_Witness ==
  /\ obs.op = "predict"
  /\ trained > 0
  /\ \E k \in 1..num_outputs : output_layer_.delta[k] # 0
  /\ \E k \in 1..num_hidden_nodes : hidden_layer_.delta[k] # 0

====
